---- MODULE Spec2Model ----
(***************************************************************************)
(* A model of siatune's version parser (siatune/version.py), of the        *)
(* MMClassification task wrapper (siatune/codebase/mmcls.py: parse_args    *)
(* and run) and of MMBaseTask.create_trainable (siatune/codebase/mm.py).   *)
(*                                                                         *)
(* Text is modelled as a sequence of one-character strings, so that        *)
(* splitting, searching, int() and str() are computed and not assumed.     *)
(* An optional value (Python's None or a value) is a sequence of length    *)
(* 0 or 1.                                                                 *)
(***************************************************************************)
EXTENDS Integers, Sequences, FiniteSets, TLC

VARIABLES
    \* ---- siatune/version.py
    version_str,    \* the argument of parse_version_info
    vpc,            \* "ready" | "returned" | "raised"
    version_info,   \* the tuple returned (empty while not returned)
    \* ---- siatune/codebase/mmcls.py: the process
    environ,        \* os.environ['LOCAL_RANK']: None (absent) or Some(text)
    environ0,       \* its value when the process started
    env_writes,     \* how many times the process has assigned it
    first_rank,     \* args.local_rank of the first parse_args that returned
    parse_result,   \* the last parse_args call: "none" | "ok" | "error"
    environ_before, \* environ when the last parse_args call began
    args,           \* the Namespace the last parse_args returned, or None
    argv,           \* the task_args it was parsed from, or None
    \* ---- siatune/codebase/mmcls.py: one execution of run
    pc,             \* position of run; "idle" outside it
    cfg,            \* the Config object
    distributed,    \* the local of run: None until assigned
    world_size,     \* what get_dist_info returned: None until called
    trace,          \* the external calls and recordings of this run, in order
    warned,         \* the warnings.warn calls of this run, in order
    meta,           \* the keys of the meta dict
    \* ---- siatune/codebase/mm.py
    task,           \* the task's num_workers and per-worker quotas
    cuda,           \* torch.cuda.is_available()
    trainable       \* the ScalingConfig of the trainer built, or None

vvars == <<version_str, vpc, version_info>>

pvars == <<environ, environ0, env_writes, first_rank, parse_result,
           environ_before, args, argv>>

rvars == <<pc, cfg, distributed, world_size, trace, warned, meta>>

tvars == <<task, cuda, trainable>>

vars == <<vvars, pvars, rvars, tvars>>

----------------------------------------------------------------------------
(* Bounds of the version-string inputs.                                    *)
MaxLen == 6

Digits == {"0", "1", "2"}

Chars == Digits \cup {"r", "c", "."}

Strings(n) == UNION {[1..k -> Chars] : k \in 0..n}

None == << >>

Some(x) == <<x>>

----------------------------------------------------------------------------
(* Python's str primitives, as parse_version_info uses them.               *)

DigitVal(ch) == CASE ch = "0" -> 0 [] ch = "1" -> 1 [] ch = "2" -> 2
                  [] ch = "3" -> 3 [] ch = "4" -> 4 [] ch = "5" -> 5
                  [] ch = "6" -> 6 [] ch = "7" -> 7 [] ch = "8" -> 8
                  [] ch = "9" -> 9

AllDigits == {"0", "1", "2", "3", "4", "5", "6", "7", "8", "9"}

\* x.isdigit(): non-empty and every character a digit.
isdigit(x) == Len(x) > 0 /\ \A i \in 1..Len(x) : x[i] \in AllDigits

\* x.find(sub): the lowest 0-based index where sub occurs in x, or -1.
find(x, sub) ==
    LET hits == {i \in 1..(Len(x) - Len(sub) + 1) :
                    SubSeq(x, i, i + Len(sub) - 1) = sub}
    IN IF hits = {} THEN -1
       ELSE (CHOOSE i \in hits : \A j \in hits : i <= j) - 1

\* x.split(sep) for a non-empty separator: always at least one piece.
RECURSIVE split(_, _)
split(x, sep) ==
    LET at == find(x, sep)
    IN IF at = -1 THEN <<x>>
       ELSE <<SubSeq(x, 1, at)>>
            \o split(SubSeq(x, at + Len(sep) + 1, Len(x)), sep)

\* int(x) succeeds on the strings of the model's alphabet exactly when x is
\* a non-empty run of digits.
int_ok(x) == isdigit(x)

\* A variant of int that adds the digits without shifting by ten.
RECURSIVE int_no_shift(_)
int_no_shift(x) == IF Len(x) = 0 THEN 0
                   ELSE int_no_shift(SubSeq(x, 1, Len(x) - 1)) + DigitVal(x[Len(x)])

RECURSIVE int(_)
int(x) == IF Len(x) = 0 THEN 0
          ELSE 10 * int(SubSeq(x, 1, Len(x) - 1)) + DigitVal(x[Len(x)])

----------------------------------------------------------------------------
(* parse_version_info.  A component of the result is [int |-> n] for an    *)
(* integer and [str |-> s] for a string.  The result of the loop is        *)
(* [raised |-> BOOLEAN, value |-> the components appended so far].         *)

RC == <<"r", "c">>

\* A variant of the loop body that tags the piece before 'rc' instead of
\* the piece after it.
VersionSegmentWrongPiece(acc, x) ==
    IF acc.raised THEN acc
    ELSE IF isdigit(x)
         THEN [acc EXCEPT !.value = Append(@, [int |-> int(x)])]
    ELSE IF find(x, RC) # -1
         THEN LET patch_version == split(x, RC)
              IN IF ~int_ok(patch_version[1])
                 THEN [acc EXCEPT !.raised = TRUE]
                 ELSE [acc EXCEPT !.value =
                          @ \o <<[int |-> int(patch_version[1])],
                                 [str |-> RC \o patch_version[1]]>>]
    ELSE acc

\* One pass of the loop body on segment x, appending to acc.
VersionSegment(acc, x) ==
    IF acc.raised THEN acc
    ELSE IF isdigit(x)
         THEN [acc EXCEPT !.value = Append(@, [int |-> int(x)])]
    ELSE IF find(x, RC) # -1
         THEN LET patch_version == split(x, RC)
              IN IF ~int_ok(patch_version[1])
                 THEN [acc EXCEPT !.raised = TRUE]
                 ELSE [acc EXCEPT !.value =
                          @ \o <<[int |-> int(patch_version[1])],
                                 [str |-> RC \o patch_version[2]]>>]
    ELSE acc

RECURSIVE VersionLoop(_, _)
VersionLoop(acc, segs) ==
    IF segs = << >> THEN acc
    ELSE VersionLoop(VersionSegment(acc, Head(segs)), Tail(segs))

parse_version_info(s) ==
    VersionLoop([raised |-> FALSE, value |-> << >>], split(s, <<".">>))

----------------------------------------------------------------------------
(* Python's path and number primitives, as parse_args and run use them.    *)

DigitChar(d) == CASE d = 0 -> "0" [] d = 1 -> "1" [] d = 2 -> "2"
                  [] d = 3 -> "3" [] d = 4 -> "4" [] d = 5 -> "5"
                  [] d = 6 -> "6" [] d = 7 -> "7" [] d = 8 -> "8"
                  [] d = 9 -> "9"

\* str(n) of an int: the canonical decimal text.
RECURSIVE str(_)
str(n) == IF n < 0 THEN <<"-">> \o str(-n)
          ELSE IF n < 10 THEN <<DigitChar(n)>>
          ELSE str(n \div 10) \o <<DigitChar(n % 10)>>

\* int(token), argparse's type=int: an optional sign, then digits.
Unsigned(t) == IF Len(t) > 0 /\ t[1] \in {"-", "+"} THEN Tail(t) ELSE t

type_int_ok(t) == isdigit(Unsigned(t))

type_int(t) == IF Len(t) > 0 /\ t[1] = "-" THEN -int(Unsigned(t))
               ELSE int(Unsigned(t))

\* x.rfind(ch): the highest 0-based index of character ch in x, or -1.
rfind(x, ch) ==
    LET hits == {i \in 1..Len(x) : x[i] = ch}
    IN IF hits = {} THEN -1
       ELSE (CHOOSE i \in hits : \A j \in hits : i >= j) - 1

\* osp.basename(p): what follows the last '/'.
basename(p) == SubSeq(p, rfind(p, "/") + 2, Len(p))

\* osp.splitext(p)[0]: p up to its last dot, when that dot lies after the
\* last '/' and some character between them is not a dot; else p.
splitext_root(p) ==
    LET sepIndex == rfind(p, "/")
        dotIndex == rfind(p, ".")
    IN IF /\ dotIndex > sepIndex
          /\ \E f \in (sepIndex + 1)..(dotIndex - 1) : p[f + 1] # "."
       THEN SubSeq(p, 1, dotIndex)
       ELSE p

\* osp.join(a, b)
join(a, b) ==
    IF Len(b) > 0 /\ b[1] = "/" THEN b
    ELSE IF Len(a) = 0 \/ a[Len(a)] = "/" THEN a \o b
    ELSE a \o <<"/">> \o b

\* range(n), as the sequence of its elements.
range(n) == [i \in 1..n |-> i - 1]

WorkDirs == <<".", "/", "w", "o", "r", "k", "_", "d", "i", "r", "s">>

----------------------------------------------------------------------------
(* Bounds of the command lines and of the environment.                     *)
MaxGpus == 2

MaxGpuId == 1

MaxWorld == 2

MaxTok == 2

ConfigPaths ==
    { <<"a", ".", "p", "y">>,
      <<"d", "/", "b", ".", "c", ".", "p", "y">>,
      <<"d", ".", "e", "/", "c", ".", "y", "m", "l">> }

CliWorkDirs == { <<"w">> }

\* --cfg-options work_dir=o, as the dict DictAction builds.
CfgOptions == { [work_dir |-> <<"o">>] }

FileWorkDirs == { <<"f">> }

Launchers == {"none", "pytorch", "slurm", "mpi"}

\* --gpu-ids with one id and with two.
GpuIdLists == {<<i>> : i \in 0..MaxGpuId}
              \cup {<<i, j>> : i \in 0..MaxGpuId, j \in 0..MaxGpuId}

RankTokens == UNION {[1..k -> {"0", "1", "-", "x"}] : k \in 0..MaxTok}

Opt(S) == {None} \cup {Some(x) : x \in S}

\* The command line with nothing but the config path.
Bare(config) ==
    [config |-> Some(config), work_dir |-> None, device |-> None,
     gpus |-> None, gpu_ids |-> None, gpu_id |-> None,
     cfg_options |-> None, launcher |-> None, local_rank |-> None]

\* Command lines that exercise run: every choice of config, --work-dir,
\* --cfg-options work_dir=..., launcher, and at most one GPU flag.
GpuFlagLines(c) ==
    {c} \cup {[c EXCEPT !.device = Some("cuda")]}
        \cup {[c EXCEPT !.gpus = Some(n)] : n \in 0..MaxGpus}
        \cup {[c EXCEPT !.gpu_ids = Some(l)] : l \in GpuIdLists}
        \cup {[c EXCEPT !.gpu_id = Some(k)] : k \in 0..MaxGpuId}

RunLines ==
    UNION { GpuFlagLines([Bare(p) EXCEPT !.work_dir = w, !.cfg_options = o,
                                         !.launcher = Some(l)]) :
              <<p, w, o, l>> \in ConfigPaths \X Opt(CliWorkDirs)
                                 \X Opt(CfgOptions) \X Launchers }

\* Command lines argparse rejects.
BadLines ==
    LET c == Bare(<<"a", ".", "p", "y">>)
    IN { [c EXCEPT !.config = None],
         [c EXCEPT !.gpus = Some(1), !.gpu_id = Some(1)],
         [c EXCEPT !.gpus = Some(1), !.gpu_ids = Some(<<0>>)],
         [c EXCEPT !.gpu_ids = Some(<< >>)],
         [c EXCEPT !.launcher = Some("ssh")] }

\* Command lines that exercise --local_rank.
RankLines ==
    LET c == Bare(<<"a", ".", "p", "y">>)
    IN {c} \cup {[c EXCEPT !.local_rank = Some(t)] : t \in RankTokens}
           \cup {[c EXCEPT !.local_rank = Some(t), !.config = None] :
                    t \in RankTokens}

EnvInit == {None, Some(<<"0">>), Some(<<"1", "1">>), Some(<<"x">>)}

----------------------------------------------------------------------------
(* MMClassification.parse_args                                             *)

Given(o) == o # None

Val(o) == o[1]

OrDefault(o, d) == IF Given(o) THEN Val(o) ELSE d

\* parser.parse_args(task_args) returns (does not exit).
ParserAccepts(cmd) ==
    /\ Given(cmd.config)
    /\ Cardinality({f \in {"device", "gpus", "gpu_ids", "gpu_id"} :
                       Given(cmd[f])}) <= 1
    /\ Given(cmd.gpu_ids) => Len(Val(cmd.gpu_ids)) >= 1
    /\ Given(cmd.launcher) => Val(cmd.launcher) \in Launchers
    /\ Given(cmd.local_rank) => type_int_ok(Val(cmd.local_rank))

\* The Namespace: the values given, and the defaults of the others.
Namespace(cmd) ==
    [config |-> Val(cmd.config),
     work_dir |-> cmd.work_dir,
     resume_from |-> None,
     no_validate |-> FALSE,
     device |-> cmd.device,
     gpus |-> cmd.gpus,
     gpu_ids |-> cmd.gpu_ids,
     gpu_id |-> OrDefault(cmd.gpu_id, 0),
     ipu_replicas |-> None,
     cfg_options |-> cmd.cfg_options,
     launcher |-> OrDefault(cmd.launcher, "none"),
     local_rank |-> IF Given(cmd.local_rank)
                    THEN type_int(Val(cmd.local_rank)) ELSE 0]

\* A variant that assigns LOCAL_RANK whether or not it is present.
SetLocalRankAlways(env, ns) == Some(str(ns.local_rank))

\* The value of os.environ['LOCAL_RANK'] after lines 100-101.
SetLocalRank(env, ns) ==
    IF env = None THEN Some(str(ns.local_rank)) ELSE env

ParseArgsOk(cmd) ==
    /\ pc = "idle"
    /\ ParserAccepts(cmd)
    /\ args' = Some(Namespace(cmd))
    /\ argv' = Some(cmd)
    /\ environ' = SetLocalRank(environ, Namespace(cmd))
    /\ env_writes' = IF environ = None THEN env_writes + 1 ELSE env_writes
    /\ first_rank' = IF first_rank = None
                     THEN Some(Namespace(cmd).local_rank) ELSE first_rank
    /\ parse_result' = "ok"
    /\ environ_before' = environ
    /\ UNCHANGED <<environ0, rvars, vvars, tvars>>

\* parser.parse_args exits (SystemExit) before line 100 is reached.
ParseArgsError(cmd) ==
    /\ pc = "idle"
    /\ ~ParserAccepts(cmd)
    /\ parse_result' = "error"
    /\ environ_before' = environ
    /\ UNCHANGED <<environ, environ0, env_writes, first_rank, args, argv,
                   rvars, vvars, tvars>>

----------------------------------------------------------------------------
(* Initial values of the parts of the state.                               *)

NoCfg == [keys |-> {}, work_dir |-> None, gpu_ids |-> << >>,
          resume_from |-> None, ipu_replicas |-> None]

IdleVersion ==
    /\ version_str = << >>
    /\ vpc = "idle"
    /\ version_info = << >>

IdleProcess(envs) ==
    /\ environ0 \in envs
    /\ environ = environ0
    /\ env_writes = 0
    /\ first_rank = None
    /\ parse_result = "none"
    /\ environ_before = environ0
    /\ args = None
    /\ argv = None

IdleRun ==
    /\ pc = "idle"
    /\ cfg = NoCfg
    /\ distributed = None
    /\ world_size = None
    /\ trace = << >>
    /\ warned = << >>
    /\ meta = {}

IdleTask ==
    /\ task = [num_workers |-> 1, num_cpus_per_worker |-> 1,
               num_gpus_per_worker |-> 1]
    /\ cuda = FALSE
    /\ trainable = None

----------------------------------------------------------------------------
(* The version parser applied to every string of the bound.                *)

InitVersion ==
    /\ version_str \in Strings(MaxLen)
    /\ vpc = "ready"
    /\ version_info = << >>
    /\ IdleProcess({None})
    /\ IdleRun
    /\ IdleTask

\* A call that returns the tuple.
VersionReturn ==
    /\ vpc = "ready"
    /\ ~parse_version_info(version_str).raised
    /\ vpc' = "returned"
    /\ version_info' = parse_version_info(version_str).value
    /\ UNCHANGED <<version_str, pvars, rvars, tvars>>

\* A call in which int() raises ValueError.
VersionRaise ==
    /\ vpc = "ready"
    /\ parse_version_info(version_str).raised
    /\ vpc' = "raised"
    /\ UNCHANGED <<version_str, version_info, pvars, rvars, tvars>>

NextVersion == VersionReturn \/ VersionRaise

SpecVersion == InitVersion /\ [][NextVersion]_vars

----------------------------------------------------------------------------
(* A process that calls parse_args any number of times.                    *)

InitParse ==
    /\ IdleVersion
    /\ IdleProcess(EnvInit)
    /\ IdleRun
    /\ IdleTask

Parse == \E cmd \in RankLines : ParseArgsOk(cmd)

ParseError == \E cmd \in RankLines \cup BadLines : ParseArgsError(cmd)

NextParse == Parse \/ ParseError

SpecParse == InitParse /\ [][NextParse]_vars

----------------------------------------------------------------------------
(* MMClassification.run, one statement group at a time.  pc names the      *)
(* group to execute next; trace lists, in order, the calls into the        *)
(* wrapped framework and the recordings into meta that the run has made.   *)

\* What Config.fromfile can return: with or without a work_dir key, the key
\* holding None or a path.
FileCfgs ==
    { [NoCfg EXCEPT !.keys = kw[1], !.work_dir = kw[2]] :
        kw \in {<<{}, None>>} \cup {<<{"work_dir"}, x>> : x \in Opt(FileWorkDirs)} }

\* cfg.merge_from_dict(options)
merge_from_dict(c, options) ==
    [c EXCEPT !.keys = @ \cup {"work_dir"}, !.work_dir = Some(options.work_dir)]

\* cfg.get('work_dir', None)
get_work_dir(c) == IF "work_dir" \in c.keys THEN c.work_dir ELSE None

\* A variant that lets the configuration's work_dir win over --work-dir.
ResolveWorkDirConfigFirst(c, a) ==
    IF get_work_dir(c) # None THEN c
    ELSE IF a.work_dir # None
    THEN [c EXCEPT !.keys = @ \cup {"work_dir"}, !.work_dir = a.work_dir]
    ELSE [c EXCEPT !.keys = @ \cup {"work_dir"},
                   !.work_dir = Some(join(WorkDirs,
                                          splitext_root(basename(a.config))))]

\* Lines 136-142.
ResolveWorkDir(c, a) ==
    IF a.work_dir # None
    THEN [c EXCEPT !.keys = @ \cup {"work_dir"}, !.work_dir = a.work_dir]
    ELSE IF get_work_dir(c) = None
    THEN [c EXCEPT !.keys = @ \cup {"work_dir"},
                   !.work_dir = Some(join(WorkDirs,
                                          splitext_root(basename(a.config))))]
    ELSE c

\* A variant that honours the count given to --gpus.
ResolveGpuIdsHonourGpus(c, a) ==
    LET c1 == IF a.gpus # None THEN [c EXCEPT !.gpu_ids = range(Val(a.gpus))]
              ELSE c
        c2 == IF a.gpu_ids # None
              THEN [c1 EXCEPT !.gpu_ids = SubSeq(Val(a.gpu_ids), 1, 1)]
              ELSE c1
    IN IF a.gpus = None /\ a.gpu_ids = None
       THEN [c2 EXCEPT !.gpu_ids = <<a.gpu_id>>]
       ELSE c2

\* A variant that keeps every id given to --gpu-ids.
ResolveGpuIdsWholeList(c, a) ==
    LET c1 == IF a.gpus # None THEN [c EXCEPT !.gpu_ids = range(1)] ELSE c
        c2 == IF a.gpu_ids # None
              THEN [c1 EXCEPT !.gpu_ids = Val(a.gpu_ids)]
              ELSE c1
    IN IF a.gpus = None /\ a.gpu_ids = None
       THEN [c2 EXCEPT !.gpu_ids = <<a.gpu_id>>]
       ELSE c2

\* Lines 145-157: cfg.gpu_ids from the GPU flags.
ResolveGpuIds(c, a) ==
    LET c1 == IF a.gpus # None THEN [c EXCEPT !.gpu_ids = range(1)] ELSE c
        c2 == IF a.gpu_ids # None
              THEN [c1 EXCEPT !.gpu_ids = SubSeq(Val(a.gpu_ids), 1, 1)]
              ELSE c1
    IN IF a.gpus = None /\ a.gpu_ids = None
       THEN [c2 EXCEPT !.gpu_ids = <<a.gpu_id>>]
       ELSE c2

\* Lines 147 and 152: the warnings of the deprecated flags.
GpuWarnings(a) ==
    (IF a.gpus # None THEN <<"--gpus is deprecated">> ELSE << >>)
    \o (IF a.gpu_ids # None THEN <<"--gpu-ids is deprecated">> ELSE << >>)

\* Line 124, Config.fromfile returning.
RunLoad ==
    /\ pc = "idle"
    /\ args # None
    /\ \E f \in FileCfgs : cfg' = f
    /\ pc' = "merge"
    /\ trace' = <<"fromfile">>
    /\ distributed' = None
    /\ world_size' = None
    /\ warned' = << >>
    /\ meta' = {}
    /\ UNCHANGED <<pvars, vvars, tvars>>

\* Line 124, Config.fromfile raising (no such file, a malformed file).
RunLoadFail ==
    /\ pc = "idle"
    /\ args # None
    /\ cfg' = NoCfg
    /\ pc' = "failed"
    /\ trace' = <<"fromfile">>
    /\ distributed' = None
    /\ world_size' = None
    /\ warned' = << >>
    /\ meta' = {}
    /\ UNCHANGED <<pvars, vvars, tvars>>

\* Lines 125-126.
RunMerge ==
    /\ pc = "merge"
    /\ IF Val(args).cfg_options # None
       THEN /\ cfg' = merge_from_dict(cfg, Val(Val(args).cfg_options))
            /\ trace' = Append(trace, "merge_from_dict")
       ELSE UNCHANGED <<cfg, trace>>
    /\ pc' = "tune"
    /\ UNCHANGED <<distributed, world_size, warned, meta, pvars, vvars, tvars>>

\* Lines 129-133.
RunTune ==
    /\ pc = "tune"
    /\ trace' = Append(trace, "setup_multi_processes")
    /\ pc' = "work_dir"
    /\ UNCHANGED <<cfg, distributed, world_size, warned, meta,
                   pvars, vvars, tvars>>

\* Lines 136-144.
RunWorkDir ==
    /\ pc = "work_dir"
    /\ cfg' = [ResolveWorkDir(cfg, Val(args)) EXCEPT
                  !.resume_from = IF Val(args).resume_from # None
                                  THEN Val(args).resume_from ELSE @]
    /\ trace' = Append(trace, "work_dir")
    /\ pc' = "gpu_ids"
    /\ UNCHANGED <<distributed, world_size, warned, meta, pvars, vvars, tvars>>

\* Lines 145-161.
RunGpuIds ==
    /\ pc = "gpu_ids"
    /\ cfg' = [ResolveGpuIds(cfg, Val(args)) EXCEPT
                  !.ipu_replicas = IF Val(args).ipu_replicas # None
                                   THEN Val(args).ipu_replicas ELSE @]
    /\ warned' = warned \o GpuWarnings(Val(args))
    /\ trace' = Append(trace, "gpu_ids")
    /\ pc' = "launcher"
    /\ UNCHANGED <<distributed, world_size, meta, pvars, vvars, tvars>>

\* A variant of the non-distributed branch that resets cfg.gpu_ids.
RunNotDistributedResets ==
    /\ pc = "launcher"
    /\ Val(args).launcher = "none"
    /\ distributed' = Some(FALSE)
    /\ cfg' = [cfg EXCEPT !.gpu_ids = range(1)]
    /\ pc' = "mkdir"
    /\ UNCHANGED <<world_size, trace, warned, meta, pvars, vvars, tvars>>

\* Lines 164-165.
RunNotDistributed ==
    /\ pc = "launcher"
    /\ Val(args).launcher = "none"
    /\ distributed' = Some(FALSE)
    /\ pc' = "mkdir"
    /\ UNCHANGED <<cfg, world_size, trace, warned, meta, pvars, vvars, tvars>>

\* Lines 166-168, init_dist returning.
RunInitDist ==
    /\ pc = "launcher"
    /\ Val(args).launcher # "none"
    /\ distributed' = Some(TRUE)
    /\ trace' = Append(trace, "init_dist")
    /\ pc' = "dist_info"
    /\ UNCHANGED <<cfg, world_size, warned, meta, pvars, vvars, tvars>>

\* Lines 166-168, init_dist raising.
RunInitDistFail ==
    /\ pc = "launcher"
    /\ Val(args).launcher # "none"
    /\ distributed' = Some(TRUE)
    /\ trace' = Append(trace, "init_dist")
    /\ pc' = "failed"
    /\ UNCHANGED <<cfg, world_size, warned, meta, pvars, vvars, tvars>>

\* Lines 169-170.
RunDistInfo ==
    /\ pc = "dist_info"
    /\ \E n \in 1..MaxWorld :
          /\ world_size' = Some(n)
          /\ cfg' = [cfg EXCEPT !.gpu_ids = range(n)]
    /\ trace' = Append(trace, "get_dist_info")
    /\ pc' = "mkdir"
    /\ UNCHANGED <<distributed, warned, meta, pvars, vvars, tvars>>

\* A statement group that leaves cfg alone: it makes its calls and
\* recordings in order and moves on.
Calls(at, calls, to) ==
    /\ pc = at
    /\ trace' = trace \o calls
    /\ pc' = to
    /\ UNCHANGED <<cfg, distributed, world_size, warned, pvars, vvars, tvars>>

\* A variant that creates the logger before the work directory exists.
WriteFilesLoggerFirst == <<"get_root_logger", "mkdir_or_exist", "dump">>

\* Lines 173-179: the work directory, the config dump, the log file.
WriteFiles == <<"mkdir_or_exist", "dump", "get_root_logger">>

RunWriteFiles == Calls("mkdir", WriteFiles, "env_info") /\ UNCHANGED meta

\* Lines 183-194.
RecordEnvInfo == <<"collect_env", "meta.env_info">>

RunEnvInfo ==
    /\ Calls("env_info", RecordEnvInfo, "seed")
    /\ meta' = meta \cup {"env_info"}

\* Lines 197-204.
RecordSeed == <<"init_random_seed", "set_random_seed", "meta.seed">>

RunSeed ==
    /\ Calls("seed", RecordSeed, "model")
    /\ meta' = meta \cup {"seed"}

\* Lines 206-207.
RunModel == Calls("model", <<"build_classifier">>, "datasets") /\ UNCHANGED meta

\* Lines 206-207, build_classifier raising.
RunModelFail == Calls("model", <<"build_classifier">>, "failed") /\ UNCHANGED meta

\* Lines 209-213: the training dataset, and the validation dataset when
\* cfg.workflow has two phases.
RunDatasets ==
    /\ \E workflow \in {1, 2} :
          Calls("datasets",
                IF workflow = 2 THEN <<"build_dataset", "build_dataset">>
                ELSE <<"build_dataset">>,
                "meta")
    /\ UNCHANGED meta

\* Lines 217-221.
RunMeta ==
    /\ Calls("meta", <<"meta.update">>, "train")
    /\ meta' = meta \cup {"mmcls_version", "config", "CLASSES"}

\* Lines 224-232.
RunTrain == Calls("train", <<"train_model">>, "done") /\ UNCHANGED meta

\* run has returned or raised: the trial's Namespace and the locals of run
\* are gone, and the process may parse and run again.
RunReturn ==
    /\ pc \in {"done", "failed"}
    /\ pc' = "idle"
    /\ args' = None
    /\ argv' = None
    /\ cfg' = NoCfg
    /\ distributed' = None
    /\ world_size' = None
    /\ trace' = << >>
    /\ warned' = << >>
    /\ meta' = {}
    /\ UNCHANGED <<environ, environ0, env_writes, first_rank, parse_result,
                   environ_before, vvars, tvars>>

Init ==
    /\ IdleVersion
    /\ IdleProcess({None})
    /\ IdleRun
    /\ IdleTask

\* Each trial parses its task_args, then runs.
TrialParse == \E cmd \in RunLines : args = None /\ ParseArgsOk(cmd)

TrialParseError == \E cmd \in BadLines : args = None /\ ParseArgsError(cmd)

Next ==
    \/ TrialParse \/ TrialParseError
    \/ RunLoad \/ RunLoadFail \/ RunMerge \/ RunTune \/ RunWorkDir
    \/ RunGpuIds \/ RunNotDistributed \/ RunInitDist \/ RunInitDistFail
    \/ RunDistInfo \/ RunWriteFiles \/ RunEnvInfo \/ RunSeed \/ RunModel
    \/ RunModelFail \/ RunDatasets \/ RunMeta \/ RunTrain \/ RunReturn

Spec == Init /\ [][Next]_vars

----------------------------------------------------------------------------
(* MMBaseTask.create_trainable                                             *)

MaxWorkers == 3

MaxCpus == 3

MaxGpusPerWorker == 2

\* ScalingConfig(trainer_resources=..., num_workers=..., use_gpu=...): the
\* fields not passed keep their default, None.
ScalingConfig(trainer_resources, num_workers, use_gpu) ==
    [trainer_resources |-> trainer_resources,
     num_workers |-> num_workers,
     use_gpu |-> use_gpu,
     resources_per_worker |-> None]

create_trainable ==
    ScalingConfig([CPU |-> task.num_cpus_per_worker], task.num_workers, cuda)

CreateTrainable ==
    /\ trainable' = Some(create_trainable)
    /\ UNCHANGED <<task, cuda, pvars, rvars, vvars>>

InitTrainable ==
    /\ IdleVersion
    /\ IdleProcess({None})
    /\ IdleRun
    /\ task \in [num_workers : 1..MaxWorkers,
                 num_cpus_per_worker : 1..MaxCpus,
                 num_gpus_per_worker : 0..MaxGpusPerWorker]
    /\ cuda \in BOOLEAN
    /\ trainable = None

NextTrainable == CreateTrainable

SpecTrainable == InitTrainable /\ [][NextTrainable]_vars

----------------------------------------------------------------------------
(* Vocabulary of the version-parser properties: the dot-separated segments *)
(* of version_str are located by the positions of its dots, and a digit    *)
(* run is valued positionally.                                             *)

Dots == {i \in 1..Len(version_str) : version_str[i] = "."}

NSegs == Cardinality(Dots) + 1

NthDot(k) == CHOOSE i \in Dots : Cardinality({j \in Dots : j < i}) = k - 1

SegLo(k) == IF k = 1 THEN 1 ELSE NthDot(k - 1) + 1

SegHi(k) == IF k = NSegs THEN Len(version_str) ELSE NthDot(k) - 1

IsNumeric(a, b) == a <= b /\ \A i \in a..b : version_str[i] \in Digits

RCAt(a, b) == {i \in a..(b - 1) : version_str[i] = "r" /\ version_str[i + 1] = "c"}

HasRC(k) == RCAt(SegLo(k), SegHi(k)) # {}

FirstRC(k) == CHOOSE i \in RCAt(SegLo(k), SegHi(k)) :
                  \A j \in RCAt(SegLo(k), SegHi(k)) : i <= j

\* The end of the text between the first 'rc' of segment k and its next 'rc'.
SuffixEnd(k) ==
    LET later == {i \in RCAt(SegLo(k), SegHi(k)) : i >= FirstRC(k) + 2}
    IN IF later = {} THEN SegHi(k)
       ELSE (CHOOSE i \in later : \A j \in later : i <= j) - 1

RECURSIVE PosValue(_, _)
PosValue(a, b) ==
    IF a > b THEN 0
    ELSE DigitVal(version_str[a]) * 10 ^ (b - a) + PosValue(a + 1, b)

NumericBefore(k) == {j \in 1..(k - 1) : IsNumeric(SegLo(j), SegHi(j))}

RankBefore(j) == Cardinality({i \in 1..j : IsNumeric(SegLo(i), SegHi(i))})

\* version_str has exactly one segment containing 'rc', and the text of that
\* segment before its first 'rc' is an integer.
OneRCSegment(k) ==
    /\ HasRC(k)
    /\ \A j \in 1..NSegs : HasRC(j) => j = k
    /\ IsNumeric(SegLo(k), FirstRC(k) - 1)

\* The components the rc segment k and the numeric segments before it give,
\* the suffix text running to position e.
RCComponents(k, e) ==
    /\ vpc = "returned"
    /\ Len(version_info) >= Cardinality(NumericBefore(k)) + 2
    /\ \A j \in NumericBefore(k) :
          version_info[RankBefore(j)] = [int |-> PosValue(SegLo(j), SegHi(j))]
    /\ version_info[Cardinality(NumericBefore(k)) + 1]
          = [int |-> PosValue(SegLo(k), FirstRC(k) - 1)]
    /\ version_info[Cardinality(NumericBefore(k)) + 2]
          = [str |-> <<"r", "c">> \o SubSeq(version_str, FirstRC(k) + 2, e)]

(* C6: for a version string all of whose dot-separated segments are        *)
(* non-empty digit runs, parse_version_info returns, and the tuple holds   *)
(* one integer per segment, in order, each the decimal value of its        *)
(* segment.                                                                *)
C6_DigitSegments ==
    (vpc # "ready" /\ \A k \in 1..NSegs : IsNumeric(SegLo(k), SegHi(k)))
    => /\ vpc = "returned"
       /\ Len(version_info) = NSegs
       /\ \A k \in 1..NSegs :
             version_info[k] = [int |-> PosValue(SegLo(k), SegHi(k))]

C6_Witness ==
    /\ vpc = "returned"
    /\ version_str = <<"1", ".", "2", ".", "0">>
    /\ version_info = <<[int |-> 1], [int |-> 2], [int |-> 0]>>

C8_NoFailureMode ==
    /\ vpc # "raised"
    /\ vpc = "returned" =>
          Len(version_info) =
              Cardinality({k \in 1..NSegs : IsNumeric(SegLo(k), SegHi(k))})
              + 2 * Cardinality({k \in 1..NSegs : HasRC(k)})

----------------------------------------------------------------------------
(* Vocabulary of the parse_args and run properties.                        *)

\* The value of a run of digit characters, by position.
RECURSIVE DigitsValue(_)
DigitsValue(d) ==
    IF d = << >> THEN 0
    ELSE DigitVal(Head(d)) * 10 ^ (Len(d) - 1) + DigitsValue(Tail(d))

\* s is the decimal text of the integer n: a minus sign for a negative n,
\* then the digits of its magnitude with no leading zero.
IsDecimalOf(s, n) ==
    LET d == IF n < 0 THEN Tail(s) ELSE s
    IN /\ Len(s) >= 1
       /\ n < 0 => s[1] = "-"
       /\ Len(d) >= 1
       /\ \A i \in 1..Len(d) : d[i] \in AllDigits
       /\ Len(d) > 1 => d[1] # "0"
       /\ DigitsValue(d) = (IF n < 0 THEN -n ELSE n)

\* wd is './work_dirs/' followed by the file name of path config without
\* its directory and without its extension.
IsDerivedWorkDir(wd, config) ==
    \E i \in 0..Len(config), j \in 1..Len(config) :
        /\ i = 0 \/ config[i] = "/"
        /\ \A k \in (i + 1)..Len(config) : config[k] # "/"
        /\ j > i + 1
        /\ config[j] = "."
        /\ \A k \in (j + 1)..Len(config) : config[k] # "."
        /\ wd = <<".", "/", "w", "o", "r", "k", "_", "d", "i", "r", "s", "/">>
                \o SubSeq(config, i + 1, j - 1)

Events == {trace[i] : i \in 1..Len(trace)}

\* The positions of run at which the GPU flags have been resolved.
FlagsResolved == {"launcher", "dist_info", "mkdir", "env_info", "seed",
                  "model", "datasets", "meta", "train", "done", "failed"}

\* The positions of run after the launcher branch.
LauncherDone == FlagsResolved \ {"launcher", "dist_info", "failed"}

(* C1: LOCAL_RANK is never overwritten: if the process started with it,    *)
(* it keeps that value; otherwise it is absent until a parse_args call     *)
(* returns and from then on is the decimal text of that first call's       *)
(* --local_rank.  It is assigned at most once, and a call whose parsing    *)
(* fails leaves it as it was.                                              *)
C1_LocalRankSetOnce ==
    /\ environ0 # None => environ = environ0
    /\ (environ0 = None /\ first_rank = None) => environ = None
    /\ (environ0 = None /\ first_rank # None) =>
          /\ environ # None
          /\ IsDecimalOf(Val(environ), Val(first_rank))
    /\ env_writes <= 1
    /\ parse_result = "error" => environ = environ_before

C1_Witness ==
    /\ environ0 = None
    /\ first_rank = Some(-1)
    /\ environ = Some(<<"-", "1">>)
    /\ Val(args).local_rank = 10
    /\ parse_result = "error"

(* C2: past the launcher branch of run, with the launcher 'none' init_dist *)
(* has not been called, distributed is False and no later step changes     *)
(* cfg.gpu_ids from the value resolved from the GPU flags; with any other  *)
(* launcher init_dist has been called and distributed is True, and once    *)
(* get_dist_info has returned cfg.gpu_ids is 0 .. world_size-1.            *)
(* cfg.gpu_ids is changed after the flags only once init_dist was called.  *)
C2_State ==
    /\ (pc \in LauncherDone \cup {"dist_info"} /\ Val(args).launcher = "none")
       => /\ "init_dist" \notin Events
          /\ distributed = Some(FALSE)
          /\ world_size = None
    /\ (pc \in LauncherDone \cup {"dist_info"} /\ Val(args).launcher # "none")
       => /\ "init_dist" \in Events
          /\ distributed = Some(TRUE)
    /\ (pc \in LauncherDone /\ Val(args).launcher # "none")
       => /\ world_size # None
          /\ Len(cfg.gpu_ids) = Val(world_size)
          /\ \A i \in 1..Len(cfg.gpu_ids) : cfg.gpu_ids[i] = i - 1

C2_Step ==
    /\ (pc \in FlagsResolved \ {"failed", "done"} /\ Val(args).launcher = "none"
        /\ pc' # "idle")
       => cfg'.gpu_ids = cfg.gpu_ids
    /\ (pc \in FlagsResolved \ {"failed", "done"} /\ cfg'.gpu_ids # cfg.gpu_ids)
       => "init_dist" \in Events

C2_LauncherBranch == [](C2_State) /\ [][C2_Step]_vars

C2_Witness ==
    /\ pc = "done"
    /\ Val(args).launcher = "pytorch"
    /\ Val(argv).gpu_ids = Some(<<1, 0>>)
    /\ world_size = Some(2)
    /\ cfg.gpu_ids = <<0, 1>>

\* The work_dir that the step from pc = "work_dir" leaves, the configuration
\* counting as having a work_dir when has_work_dir holds.
WorkDirResolved(has_work_dir) ==
    (pc = "work_dir" /\ pc' = "gpu_ids") =>
        /\ "work_dir" \in cfg'.keys
        /\ IF Val(args).work_dir # None
           THEN cfg'.work_dir = Val(argv).work_dir
           ELSE IF has_work_dir
           THEN /\ cfg'.work_dir = cfg.work_dir
                /\ Val(args).cfg_options # None =>
                      cfg'.work_dir = Some(Val(Val(argv).cfg_options).work_dir)
           ELSE /\ cfg'.work_dir # None
                /\ IsDerivedWorkDir(Val(cfg'.work_dir), Val(Val(argv).config))

(* C3 (as stated): run resolves cfg.work_dir to the --work-dir value if    *)
(* given; else, when the merged configuration has a work_dir key, to the   *)
(* value under that key, unchanged; else to './work_dirs/<config file name *)
(* without directory and extension>'.                                      *)
C3_Original == [][WorkDirResolved("work_dir" \in cfg.keys)]_vars

(* C3 (amended): as above, the configuration's own work_dir being kept     *)
(* when the key is present with a value other than None; a work_dir key    *)
(* holding None is treated as no key and gives the derived directory.      *)
C3_WorkDirPriority ==
    [][WorkDirResolved("work_dir" \in cfg.keys /\ cfg.work_dir # None)]_vars

C3_Witness ==
    /\ pc = "gpu_ids"
    /\ Val(argv).work_dir = None
    /\ Val(argv).cfg_options = None
    /\ Val(args).config = <<"d", "/", "b", ".", "c", ".", "p", "y">>
    /\ cfg.work_dir = Some(<<".", "/", "w", "o", "r", "k", "_", "d", "i", "r",
                             "s", "/", "b", ".", "c">>)

(* C4: when --gpus N was given (and so no --gpu-ids), the GPU id list that *)
(* run has resolved from the flags has length 1 whatever N is, and the     *)
(* deprecation warning of --gpus has been emitted.                         *)
C4_GpusFallback ==
    (pc \in FlagsResolved \ {"failed"}
     /\ Val(argv).gpus # None /\ Val(argv).gpu_ids = None)
    => /\ "--gpus is deprecated" \in {warned[i] : i \in 1..Len(warned)}
       /\ pc = "launcher" => Len(cfg.gpu_ids) = 1

C4_Witness ==
    /\ pc = "launcher"
    /\ Val(argv).gpus = Some(2)
    /\ cfg.gpu_ids = <<0>>
    /\ warned = <<"--gpus is deprecated">>

(* C5: with the launcher 'none', once the flags are resolved and until run *)
(* ends, cfg.gpu_ids is the one-element list of the first id of --gpu-ids  *)
(* when that flag was given, [K] when --gpu-id K was given, and [0] when   *)
(* none of --gpus, --gpu-ids, --gpu-id was given.                          *)
C5_SingleGpuId ==
    (pc \in FlagsResolved \ {"failed"} /\ Val(args).launcher = "none")
    => LET a == Val(argv)
       IN /\ (a.gpu_ids # None /\ a.gpus = None)
                => cfg.gpu_ids = <<Val(a.gpu_ids)[1]>>
          /\ (a.gpu_id # None /\ a.gpus = None /\ a.gpu_ids = None)
                => cfg.gpu_ids = <<Val(a.gpu_id)>>
          /\ (a.gpu_id = None /\ a.gpus = None /\ a.gpu_ids = None)
                => cfg.gpu_ids = <<0>>

C5_Witness ==
    /\ pc = "done"
    /\ Val(args).launcher = "none"
    /\ Val(argv).gpu_ids = Some(<<1, 0>>)
    /\ cfg.gpu_ids = <<1>>

\* The place of each call and recording in the order of steps: load, merge,
\* tuning, work_dir, GPU ids, distributed initialization, work directory,
\* config dump, log file, seed, model, datasets, metadata, training.  The
\* environment snapshot is placed at env_at.
StepOf(e, env_at) ==
    CASE e = "fromfile" -> 1
      [] e = "merge_from_dict" -> 2
      [] e = "setup_multi_processes" -> 3
      [] e = "work_dir" -> 4
      [] e = "gpu_ids" -> 5
      [] e \in {"init_dist", "get_dist_info"} -> 6
      [] e = "mkdir_or_exist" -> 7
      [] e = "dump" -> 8
      [] e = "get_root_logger" -> 9
      [] e \in {"collect_env", "meta.env_info"} -> env_at
      [] e \in {"init_random_seed", "set_random_seed", "meta.seed"} -> 11
      [] e = "build_classifier" -> 12
      [] e = "build_dataset" -> 13
      [] e = "meta.update" -> 14
      [] e = "train_model" -> 15

EveryStep == {"fromfile", "setup_multi_processes", "work_dir", "gpu_ids",
              "mkdir_or_exist", "dump", "get_root_logger", "meta.env_info",
              "meta.seed", "build_classifier", "build_dataset", "meta.update",
              "train_model"}

RunInOrder(env_at) ==
    /\ \A i \in 1..Len(trace), j \in 1..Len(trace) :
          i < j => StepOf(trace[i], env_at) <= StepOf(trace[j], env_at)
    /\ \A i \in 1..Len(trace), j \in 1..Len(trace) :
          (trace[i] = "init_dist"
           /\ trace[j] \in {"mkdir_or_exist", "dump", "get_root_logger"})
          => i < j
    /\ Cardinality({i \in 1..Len(trace) : trace[i] = "train_model"}) <= 1
    /\ "train_model" \in Events => trace[Len(trace)] = "train_model"
    /\ pc = "done" =>
          /\ EveryStep \subseteq Events
          /\ "merge_from_dict" \in Events <=> Val(args).cfg_options # None
          /\ "init_dist" \in Events <=> Val(args).launcher # "none"
          /\ meta = {"env_info", "seed", "mmcls_version", "config", "CLASSES"}

(* C10 (as stated): the calls and recordings of every run are made in the  *)
(* listed order, the environment snapshot being attached with the rest of  *)
(* the run metadata after the datasets are built; train_model is called    *)
(* once, last; init_dist precedes the filesystem writes and the logger.    *)
C10_Original == RunInOrder(14)

(* C10 (amended): as above, except that the environment snapshot is taken  *)
(* and recorded in meta right after the logger is created, before the seed *)
(* is computed; the framework version, config text and class labels are    *)
(* attached after the datasets are built.                                  *)
C10_StepOrder == RunInOrder(10)

C10_Witness ==
    /\ pc = "done"
    /\ "init_dist" \in Events
    /\ "merge_from_dict" \in Events
    /\ trace[Len(trace)] = "train_model"

(* C9: the scaling descriptor of the trainer binds the task's num_workers, *)
(* its per-worker CPU and GPU quotas as the resources of each worker, and  *)
(* whether GPU acceleration is available.                                  *)
C9_ScalingBinds ==
    trainable # None =>
        /\ Val(trainable).num_workers = task.num_workers
        /\ Val(trainable).use_gpu = cuda
        /\ Val(trainable).resources_per_worker =
              Some([CPU |-> task.num_cpus_per_worker,
                    GPU |-> task.num_gpus_per_worker])

====
